---- MODULE Spec2Model ----
(***************************************************************************)
(* Model of VirtualKeyBoard (src/src/index.js, TypeScript source, lines    *)
(* 218-467): the key-event interpreter that turns keydown/keyup events     *)
(* into note and settings events delivered to subscribers.                 *)
(*                                                                         *)
(* Frequencies are exact fixed-point numbers: a table frequency is held    *)
(* in hundredths of a hertz (16.35 -> 1635) and Math.pow(2, octave) in     *)
(* units of 2^-10, so an emitted freq is in units of 1/(100 * 2^10) Hz.    *)
(* Multiplying a double by a power of two is exact, so this arithmetic     *)
(* agrees with the program's.                                              *)
(***************************************************************************)
EXTENDS Integers, Sequences, FiniteSets, TLC

VARIABLES
    octave,        \* this.octave
    velocity,      \* this.velocity
    holdMode,      \* this.holdMode
    heldKeys,      \* this.heldKeys : key -> voice, a function on the held keys
    subscribers,   \* this.subscribers : sequence of callbacks
    activeVoices,  \* this.activeVoices : the voice counter
    call,          \* the most recent call on the object and its argument
    emitted,       \* the events passed to emit() by the most recent call, in order
    delivered,     \* the callback invocations made by the most recent call, in order
    threw,         \* TRUE iff the most recent call ended with a TypeError
    listeners,     \* the window's listener lists for "keydown" and "keyup"; a
                   \* listener is named by the number of the bind() call that made it
    binds,         \* the number of keyHandler.bind(this) calls made so far
    activated,     \* TRUE iff activate() was called more recently than deactivate()
    dispatch,      \* the key event the window delivered last: the event, the
                   \* interpreter fields and `activated` when it arrived, the
                   \* listeners still to be called, the number of listener calls
                   \* made and the events they emitted
    down,          \* the keys that are physically down
    sounding,      \* the voices a consumer has heard a NoteOn for and no NoteOff since
    released       \* <<key, voice>> of the NoteOffs since the counter was last 0

objVars == <<octave, velocity, holdMode, heldKeys, subscribers, activeVoices,
             call, emitted, delivered, threw>>

winVars == <<listeners, binds, activated, dispatch>>

envVars == <<down, sounding, released>>

vars == <<octave, velocity, holdMode, heldKeys, subscribers, activeVoices,
          call, emitted, delivered, threw, listeners, binds, activated,
          dispatch, down, sounding, released>>

(***************************************************************************)
(* Bounds and input sets                                                   *)
(***************************************************************************)
\* the voice counter grows without bound under hold mode; presses that would
\* take it past MaxVoices are not generated
MaxVoices == 3

\* activate() and deactivate() each call bind() twice; calls that would take
\* the number of bind() calls past MaxBinds are not generated
MaxBinds == 8

\* event.key values generated by Spec: two note keys (one also in upper
\* case), the octave and hold-mode command keys, and an unmapped key.  The
\* velocity takes 52 values that combine freely with everything else, so the
\* velocity keys are generated by SpecCommands instead.
Keys == {"a", "A", "w", "z", "x", "b", "q"}

\* event.key values generated by SpecCommands: every command key (one also
\* in upper case), one note key and an unmapped key
CommandKeys == {"z", "x", "X", "c", "v", "b", "a", "Shift"}

\* event.type values generated; "keypress" stands for every other kind
EventTypes == {"keydown", "keyup", "keypress"}

\* callbacks handed to subscribe / unsubscribe
Callbacks == {"f", "g"}

\* event.key values generated by SpecWindow, by SpecObserved and by
\* SpecSubscribers
WindowKeys == {"a", "x"}
ObservedKeys == {"a", "w", "b", "x", "q"}
SubscriberKeys == {"a", "b"}

\* callbacks generated by SpecSubscribers: two that only read the event, one
\* that unsubscribes itself when called, one that subscribes "g" when called
ReentrantCallbacks == {"f", "g", "once", "adder"}

\* constructor arguments generated: the default octave and octaves outside
\* the range the commands keep; the default velocity
InitOctaves == {1, 9, -9}
InitVelocities == {100}

(***************************************************************************)
(* Static tables and pure functions                                        *)
(***************************************************************************)
MathMin(a, b) == IF a < b THEN a ELSE b

MathMax(a, b) == IF a > b THEN a ELSE b

limitToLooseUpper(num, min, max) == MathMin(MathMax(num, min), max + 1)

limitTo(num, min, max) == MathMin(MathMax(num, min), max)

keyToNoteMap ==
    ("a" :> [note |-> "C",  freq |-> 1635]) @@
    ("w" :> [note |-> "C#", freq |-> 1732]) @@
    ("s" :> [note |-> "D",  freq |-> 1835]) @@
    ("e" :> [note |-> "D#", freq |-> 1945]) @@
    ("d" :> [note |-> "E",  freq |-> 2060]) @@
    ("f" :> [note |-> "F",  freq |-> 2183]) @@
    ("t" :> [note |-> "F#", freq |-> 2312]) @@
    ("g" :> [note |-> "G",  freq |-> 2450]) @@
    ("y" :> [note |-> "G#", freq |-> 2596]) @@
    ("h" :> [note |-> "A",  freq |-> 2750]) @@
    ("u" :> [note |-> "A#", freq |-> 2914]) @@
    ("j" :> [note |-> "B",  freq |-> 3087]) @@
    ("k" :> [note |-> "C",  freq |-> 3270]) @@
    ("o" :> [note |-> "C#", freq |-> 3465]) @@
    ("l" :> [note |-> "D",  freq |-> 3671]) @@
    ("p" :> [note |-> "D#", freq |-> 3889])

keyToCommandsMap ==
    ("z" :> "octave-down") @@
    ("x" :> "octave-up") @@
    ("c" :> "velocity-down") @@
    ("v" :> "velocity-up") @@
    ("b" :> "hold-mode")

\* String.prototype.toLowerCase on the key values generated
UpperToLower ==
    ("A" :> "a") @@ ("X" :> "x") @@ ("Shift" :> "shift")

toLowerCase(s) == IF s \in DOMAIN UpperToLower THEN UpperToLower[s] ELSE s

\* keyToNoteMap[key] is truthy / keyToCommandsMap[key] is truthy
hasNote(key) == key \in DOMAIN keyToNoteMap

hasCommand(key) == key \in DOMAIN keyToCommandsMap

\* Math.pow(2, e) in units of 2^-10
MathPow2(e) == 2 ^ (e + 10)

freqCorrectionNoOctave(freq) == freq * MathPow2(0)

\* freqCorrection(freq): freq * Math.pow(2, this.octave)
freqCorrection(freq) == freq * MathPow2(octave)

(***************************************************************************)
(* emit                                                                    *)
(***************************************************************************)
\* this.subscribers.indexOf(callback) on a list: 0 when absent (1-based)
indexOf(list, callback) ==
    IF \E i \in 1..Len(list) : list[i] = callback
    THEN CHOOSE i \in 1..Len(list) :
            list[i] = callback /\ \A j \in 1..(i - 1) : list[j] # callback
    ELSE 0

pushAlways(list, callback) == Append(list, callback)

\* subscribe on a list: push unless indexOf finds the callback
pushIfAbsent(list, callback) ==
    IF indexOf(list, callback) # 0 THEN list ELSE Append(list, callback)

\* unsubscribe on a list: splice(position, 1) when indexOf finds the callback
spliceFirst(list, callback) ==
    LET position == indexOf(list, callback)
    IN  IF position = 0 THEN list
        ELSE [i \in 1..(Len(list) - 1) |->
                IF i < position THEN list[i] ELSE list[i + 1]]

\* what a callback does to this.subscribers when it is called: "once"
\* unsubscribes itself, "adder" subscribes "g", every other callback only
\* reads the event
callbackEffect(callback, list) ==
    CASE callback = "once"  -> spliceFirst(list, "once")
      [] callback = "adder" -> pushIfAbsent(list, "g")
      [] OTHER -> list

RECURSIVE mapFrom(_, _, _, _)
\* Array.prototype.map from index k (1-based): the length len is read once
\* before the loop, each index is looked up in the array as it is at that
\* moment, and an index past the current end is skipped
mapFrom(k, len, list, data) ==
    IF k > len THEN [subscribers |-> list, calls |-> <<>>]
    ELSE IF k > Len(list) THEN mapFrom(k + 1, len, list, data)
    ELSE LET rest == mapFrom(k + 1, len, callbackEffect(list[k], list), data)
         IN  [subscribers |-> rest.subscribers,
              calls |-> <<[callback |-> list[k], event |-> data]>> \o rest.calls]

\* emit(data) on the subscriber list: the list afterwards and the callback
\* invocations made, in order
emit(list, data) == mapFrom(1, Len(list), list, data)

RECURSIVE emitAll(_, _)
\* the successive emit() calls of one keyHandler call
emitAll(list, events) ==
    IF events = <<>> THEN [subscribers |-> list, calls |-> <<>>]
    ELSE LET first == emit(list, Head(events))
             rest  == emitAll(first.subscribers, Tail(events))
         IN  [subscribers |-> rest.subscribers,
              calls |-> first.calls \o rest.calls]

(***************************************************************************)
(* keyHandler, keydown                                                     *)
(***************************************************************************)
doTriggerAlways(key) == TRUE

\* doTrigger = !this.heldKeys.hasOwnProperty(key) || this.holdMode
doTrigger(key) == ~(key \in DOMAIN heldKeys) \/ holdMode

voicePreIncrement == activeVoices + 1

\* voice = this.activeVoices++ : the value before the increment
voicePostIncrement == activeVoices

heldKeysSetByNote(key, voice) ==
    [k \in DOMAIN heldKeys \cup {keyToNoteMap[key].note} |->
        IF k = keyToNoteMap[key].note THEN voice ELSE heldKeys[k]]

\* this.heldKeys[key] = voice
heldKeysSet(key, voice) ==
    [k \in DOMAIN heldKeys \cup {key} |-> IF k = key THEN voice ELSE heldKeys[k]]

\* the event of the note branch of keydown
noteOnEvent(key, voice) ==
    [action |-> "date",
     data   |-> [note  |-> keyToNoteMap[key],
                 voice |-> voice,
                 freq  |-> freqCorrection(keyToNoteMap[key].freq),
                 state |-> "on"]]

\* the switch over the command: the fields it assigns and the data it builds
commandEffect(command) ==
    CASE command = "octave-up" ->
            LET o == limitTo(octave + 1, -8, 8)
            IN  [octave |-> o, velocity |-> velocity, holdMode |-> holdMode,
                 data |-> [command |-> command, state |-> o]]
      [] command = "octave-down" ->
            LET o == limitTo(octave - 1, -8, 8)
            IN  [octave |-> o, velocity |-> velocity, holdMode |-> holdMode,
                 data |-> [command |-> command, state |-> o]]
      [] command = "velocity-up" ->
            LET v == limitTo(velocity + 5, 0, 127)
            IN  [octave |-> octave, velocity |-> v, holdMode |-> holdMode,
                 data |-> [command |-> command, state |-> v]]
      [] command = "velocity-down" ->
            LET v == limitTo(velocity - 5, 0, 127)
            IN  [octave |-> octave, velocity |-> v, holdMode |-> holdMode,
                 data |-> [command |-> command, state |-> v]]
      [] command = "hold-mode" ->
            LET h == ~holdMode
            IN  [octave |-> octave, velocity |-> velocity, holdMode |-> h,
                 data |-> [command |-> command, state |-> h]]

settingsEventsIfTruthyState(data) ==
    IF (IF data.command = "hold-mode" THEN ~data.state ELSE data.state = 0)
    THEN <<>>
    ELSE <<[action |-> "settings", data |-> data]>>

\* if (data) { this.emit({action: 'settings', data}) } : data is an object,
\* hence truthy, so the event is always emitted
settingsEvents(data) == <<[action |-> "settings", data |-> data]>>

keyDown(key) ==
    LET trigger == hasNote(key) /\ doTrigger(key)
        voice   == voicePostIncrement
        notes   == IF trigger THEN <<noteOnEvent(key, voice)>> ELSE <<>>
        eff     == IF hasCommand(key) THEN commandEffect(keyToCommandsMap[key])
                   ELSE [octave |-> octave, velocity |-> velocity,
                         holdMode |-> holdMode]
        sets    == IF hasCommand(key) THEN settingsEvents(eff.data) ELSE <<>>
    IN  /\ trigger => activeVoices < MaxVoices
        /\ activeVoices' = IF trigger THEN activeVoices + 1 ELSE activeVoices
        /\ heldKeys' = IF trigger THEN heldKeysSet(key, voice) ELSE heldKeys
        /\ octave' = eff.octave
        /\ velocity' = eff.velocity
        /\ holdMode' = eff.holdMode
        /\ emitted' = notes \o sets
        /\ delivered' = emitAll(subscribers, notes \o sets).calls
        /\ subscribers' = emitAll(subscribers, notes \o sets).subscribers
        /\ threw' = FALSE

(***************************************************************************)
(* keyHandler, keyup                                                       *)
(***************************************************************************)
doReleaseIgnoringHold(key) == key \in DOMAIN heldKeys

\* typeof heldKey !== 'undefined' && !this.holdMode
doRelease(key) == key \in DOMAIN heldKeys /\ ~holdMode

\* delete this.heldKeys[key]
heldKeysDelete(key) == [k \in DOMAIN heldKeys \ {key} |-> heldKeys[k]]

\* the event of the keyup branch
noteOffEvent(key, voice) ==
    [action |-> "gate",
     data   |-> [note  |-> keyToNoteMap[key],
                 voice |-> voice,
                 freq  |-> freqCorrection(keyToNoteMap[key].freq),
                 state |-> "off"]]

resetVoicesNever(held) == activeVoices

resetVoicesAlways(held) == 0

\* if (!Object.keys(this.heldKeys).length) this.activeVoices = 0
resetVoices(held) == IF DOMAIN held = {} THEN 0 ELSE activeVoices

keyUp(key) ==
    LET release == doRelease(key)
        held    == IF release THEN heldKeysDelete(key) ELSE heldKeys
        \* note.freq of an undefined note is a TypeError: the handler ends
        \* after the delete, before emit and before the reset
        fails   == release /\ ~hasNote(key)
        notes   == IF release /\ ~fails
                   THEN <<noteOffEvent(key, heldKeys[key])>> ELSE <<>>
    IN  /\ heldKeys' = held
        /\ activeVoices' = IF fails THEN activeVoices ELSE resetVoices(held)
        /\ emitted' = notes
        /\ delivered' = emitAll(subscribers, notes).calls
        /\ subscribers' = emitAll(subscribers, notes).subscribers
        /\ threw' = fails
        /\ UNCHANGED <<octave, velocity, holdMode>>

(***************************************************************************)
(* keyHandler                                                              *)
(***************************************************************************)
keyHandler(event) ==
    LET key == toLowerCase(event.key)
    IN  /\ call' = [op |-> "keyHandler", key |-> event.key, type |-> event.type]
        /\ CASE event.type = "keydown" -> keyDown(key)
             [] event.type = "keyup"   -> keyUp(key)
             [] OTHER -> /\ emitted' = <<>>
                         /\ delivered' = <<>>
                         /\ threw' = FALSE
                         /\ UNCHANGED <<octave, velocity, holdMode, heldKeys,
                                        activeVoices, subscribers>>

(***************************************************************************)
(* subscribe / unsubscribe                                                 *)
(***************************************************************************)
\* this.subscribers.indexOf(callback) >= 0
isSubscribed(callback) == \E i \in 1..Len(subscribers) : subscribers[i] = callback

subscribe(callback) ==
    /\ subscribers' = pushIfAbsent(subscribers, callback)
    /\ call' = [op |-> "subscribe", callback |-> callback]
    /\ emitted' = <<>>
    /\ delivered' = <<>>
    /\ threw' = FALSE
    /\ UNCHANGED <<octave, velocity, holdMode, heldKeys, activeVoices>>

unsubscribe(callback) ==
    /\ subscribers' = spliceFirst(subscribers, callback)
    /\ call' = [op |-> "unsubscribe", callback |-> callback]
    /\ emitted' = <<>>
    /\ delivered' = <<>>
    /\ threw' = FALSE
    /\ UNCHANGED <<octave, velocity, holdMode, heldKeys, activeVoices>>

(***************************************************************************)
(* activate / deactivate and the window                                    *)
(***************************************************************************)
\* this.keyHandler.bind(this): a new function object on every call
bind(n) == n + 1

\* addEventListener on one listener list: a listener already in the list is
\* not added again
addEventListener(list, fn) ==
    IF \E i \in 1..Len(list) : list[i] = fn THEN list ELSE Append(list, fn)

\* removeEventListener on one listener list: removes the listener that is
\* the same function object, if there is one
removeEventListener(list, fn) == SelectSeq(list, LAMBDA g : g # fn)

activate ==
    /\ dispatch.pending = <<>>
    /\ binds + 2 <= MaxBinds
    /\ listeners' = [keydown |-> addEventListener(listeners.keydown, bind(binds)),
                     keyup   |-> addEventListener(listeners.keyup, bind(bind(binds)))]
    /\ binds' = bind(bind(binds))
    /\ activated' = TRUE
    /\ call' = [op |-> "activate"]
    /\ emitted' = <<>>
    /\ delivered' = <<>>
    /\ threw' = FALSE
    /\ UNCHANGED <<octave, velocity, holdMode, heldKeys, subscribers,
                   activeVoices, dispatch>>

deactivate ==
    /\ dispatch.pending = <<>>
    /\ binds + 2 <= MaxBinds
    /\ listeners' = [keydown |-> removeEventListener(listeners.keydown, bind(binds)),
                     keyup   |-> removeEventListener(listeners.keyup, bind(bind(binds)))]
    /\ binds' = bind(bind(binds))
    /\ activated' = FALSE
    /\ call' = [op |-> "deactivate"]
    /\ emitted' = <<>>
    /\ delivered' = <<>>
    /\ threw' = FALSE
    /\ UNCHANGED <<octave, velocity, holdMode, heldKeys, subscribers,
                   activeVoices, dispatch>>

\* the value of dispatch while the window has delivered no key event yet
noEvent ==
    [event |-> [key |-> "", type |-> ""], activated |-> TRUE,
     before |-> [octave |-> 0, velocity |-> 0, holdMode |-> FALSE,
                 heldKeys |-> <<>>, activeVoices |-> 0],
     pending |-> <<>>, handled |-> 0, emitted |-> <<>>]

\* the interpreter fields, as recorded when a key event arrives
fields ==
    [octave |-> octave, velocity |-> velocity, holdMode |-> holdMode,
     heldKeys |-> heldKeys, activeVoices |-> activeVoices]

\* the window receives a key event: the listeners registered for its type
\* will be called one after the other
windowEvent(event) ==
    LET registered == IF event.type \in DOMAIN listeners
                      THEN listeners[event.type] ELSE <<>>
    IN  /\ dispatch.pending = <<>>
        /\ activeVoices + Len(registered) <= MaxVoices
        /\ dispatch' = [event |-> event, activated |-> activated,
                        before |-> fields, pending |-> registered,
                        handled |-> 0, emitted |-> <<>>]
        /\ UNCHANGED <<objVars, listeners, binds, activated>>

\* the window calls the next listener: one keyHandler call
listenerCall ==
    /\ dispatch.pending # <<>>
    /\ keyHandler(dispatch.event)
    /\ dispatch' = [dispatch EXCEPT !.pending = Tail(@),
                                    !.handled = @ + 1,
                                    !.emitted = @ \o emitted']
    /\ UNCHANGED <<listeners, binds, activated>>

(***************************************************************************)
(* The keyboard and the consumer, as seen from outside                     *)
(***************************************************************************)
voicesOf(events, state) ==
    {events[i].data.voice : i \in {j \in 1..Len(events) :
        "voice" \in DOMAIN events[j].data /\ events[j].data.state = state}}

\* one keyHandler call for a physical key transition, with the key going
\* down or up and the consumer hearing the events
observedKey(event) ==
    LET key == toLowerCase(event.key)
    IN  /\ keyHandler(event)
        /\ down' = CASE event.type = "keydown" -> down \cup {key}
                     [] event.type = "keyup"   -> down \ {key}
                     [] OTHER -> down
        /\ sounding' = (sounding \ voicesOf(emitted', "off"))
                           \cup voicesOf(emitted', "on")
        /\ released' = IF activeVoices' = 0 THEN {}
                       ELSE released \cup
                            {<<key, v>> : v \in voicesOf(emitted', "off")}

(***************************************************************************)
(* Specifications                                                          *)
(***************************************************************************)
\* new VirtualKeyBoard(o, v): the field initialisers, the two assignments and
\* the call of activate()
constructed(o, v) ==
    /\ octave = o
    /\ velocity = v
    /\ holdMode = FALSE
    /\ heldKeys = <<>>
    /\ subscribers = <<>>
    /\ activeVoices = 0
    /\ call = [op |-> "constructor", octave |-> o, velocity |-> v]
    /\ emitted = <<>>
    /\ delivered = <<>>
    /\ threw = FALSE
    /\ listeners = [keydown |-> <<bind(0)>>, keyup |-> <<bind(bind(0))>>]
    /\ binds = bind(bind(0))
    /\ activated = TRUE
    /\ dispatch = noEvent
    /\ down = {}
    /\ sounding = {}
    /\ released = {}

Init == \E o \in InitOctaves, v \in InitVelocities : constructed(o, v)

\* new VirtualKeyBoard(): octave = 1, velocity = 100
InitDefault == constructed(1, 100)

\* the methods called directly
Next ==
    \/ \E k \in Keys, t \in EventTypes :
          keyHandler([key |-> k, type |-> t]) /\ UNCHANGED <<winVars, envVars>>
    \/ \E cb \in Callbacks : subscribe(cb) /\ UNCHANGED <<winVars, envVars>>
    \/ \E cb \in Callbacks : unsubscribe(cb) /\ UNCHANGED <<winVars, envVars>>

Spec == Init /\ [][Next]_vars

NextCommands ==
    \E k \in CommandKeys, t \in EventTypes :
        keyHandler([key |-> k, type |-> t]) /\ UNCHANGED <<winVars, envVars>>

\* the keyboard constructed with the default arguments, driven by the
\* command keys
SpecCommands == InitDefault /\ [][NextCommands]_vars

NextSubscribers ==
    \/ \E k \in SubscriberKeys, t \in {"keydown", "keyup"} :
          keyHandler([key |-> k, type |-> t]) /\ UNCHANGED <<winVars, envVars>>
    \/ \E cb \in ReentrantCallbacks :
          subscribe(cb) /\ UNCHANGED <<winVars, envVars>>
    \/ \E cb \in ReentrantCallbacks :
          unsubscribe(cb) /\ UNCHANGED <<winVars, envVars>>

\* the default keyboard with subscribers that may change the subscriber list
\* while an event is delivered
SpecSubscribers == InitDefault /\ [][NextSubscribers]_vars

NextWindow ==
    \/ activate /\ UNCHANGED envVars
    \/ deactivate /\ UNCHANGED envVars
    \/ \E k \in WindowKeys, t \in EventTypes :
          windowEvent([key |-> k, type |-> t]) /\ UNCHANGED envVars
    \/ listenerCall /\ UNCHANGED envVars

\* the default keyboard driven through the window's listeners
SpecWindow == InitDefault /\ [][NextWindow]_vars

NextObserved ==
    \E k \in ObservedKeys, t \in {"keydown", "keyup"} :
        observedKey([key |-> k, type |-> t]) /\ UNCHANGED winVars

\* the default keyboard driven by physical key transitions, with a consumer
\* listening
SpecObserved == InitDefault /\ [][NextObserved]_vars

(***************************************************************************)
(* Vocabulary of the properties                                            *)
(***************************************************************************)
AllKeys == Keys \cup CommandKeys

\* the most recent call was keyHandler({key: k, type: t})
isKeyCall(c, k, t) == c.op = "keyHandler" /\ c.key = k /\ c.type = t

isNoteEvent(e) == "voice" \in DOMAIN e.data

\* NoteOn / NoteOff are told apart by data.state, the tag is C1's subject
isNoteOn(e) == isNoteEvent(e) /\ e.data.state = "on"

isNoteOff(e) == isNoteEvent(e) /\ e.data.state = "off"

isSettings(e) == e.action = "settings"

\* base * 2^o hertz in the unit of the emitted freq field
Hertz(base, o) == base * (2 ^ (o + 10))

(***************************************************************************)
(* C1: every event emitted by a triggering note press carries action       *)
(* "note-on" and data.state "on", every event emitted by an effective      *)
(* note release carries action "note-off" and data.state "off", every      *)
(* event emitted by a command press carries action "settings", and no      *)
(* other action tag is emitted.                                            *)
(***************************************************************************)
C1_ActionTags ==
    \A i \in 1..Len(emitted) :
        LET e == emitted[i]
            key == toLowerCase(call.key)
        IN  /\ e.action \in {"note-on", "note-off", "settings"}
            /\ (call.type = "keydown" /\ hasNote(key)) =>
                   e.action = "note-on" /\ e.data.state = "on"
            /\ call.type = "keyup" =>
                   e.action = "note-off" /\ e.data.state = "off"
            /\ (call.type = "keydown" /\ hasCommand(key)) =>
                   e.action = "settings"

(***************************************************************************)
(* C2: a note press that triggers (key not held, or hold mode on) emits    *)
(* one NoteOn whose voice is the counter before the press, leaves the      *)
(* counter one higher, stores that voice in heldKeys[key]; a re-trigger    *)
(* under hold mode stores a voice different from the one stored before.    *)
(***************************************************************************)
C2_TriggerAssignsVoice ==
    [][\A k \in AllKeys :
        LET key == toLowerCase(k)
        IN  (/\ isKeyCall(call', k, "keydown")
             /\ hasNote(key)
             /\ (key \notin DOMAIN heldKeys \/ holdMode))
            => /\ Len(emitted') = 1
               /\ isNoteOn(emitted'[1])
               /\ emitted'[1].data.voice = activeVoices
               /\ activeVoices' = activeVoices + 1
               /\ key \in DOMAIN heldKeys'
               /\ heldKeys'[key] = activeVoices
               /\ (key \in DOMAIN heldKeys => heldKeys'[key] # heldKeys[key])
      ]_vars

\* "a" was re-triggered under hold mode: it held voice 0 and now holds voice 1
C2_Witness ==
    /\ isKeyCall(call, "a", "keydown")
    /\ holdMode
    /\ DOMAIN heldKeys = {"a"}
    /\ heldKeys["a"] = 1
    /\ activeVoices = 2
    /\ Len(emitted) = 1
    /\ emitted[1].data.voice = 1

(***************************************************************************)
(* C3: a keydown of a note key that is already held, with hold mode off,   *)
(* emits nothing and leaves heldKeys, the voice counter, octave, velocity  *)
(* and holdMode unchanged.                                                 *)
(***************************************************************************)
C3_RepeatIsIgnored ==
    [][\A k \in AllKeys :
        LET key == toLowerCase(k)
        IN  (/\ isKeyCall(call', k, "keydown")
             /\ hasNote(key)
             /\ key \in DOMAIN heldKeys
             /\ ~holdMode)
            => /\ emitted' = <<>>
               /\ delivered' = <<>>
               /\ UNCHANGED <<heldKeys, activeVoices, octave, velocity, holdMode>>
      ]_vars

\* a second keydown of "a" arrived while "a" was held and hold mode was off
C3_Witness ==
    /\ isKeyCall(call, "a", "keydown")
    /\ ~holdMode
    /\ "a" \in DOMAIN heldKeys
    /\ emitted = <<>>

(***************************************************************************)
(* C4 as stated: releasing the only key in heldKeys resets the voice       *)
(* counter to 0, after every sequence of presses, releases and commands.   *)
(***************************************************************************)
C4_Original ==
    [][\A k \in AllKeys :
        (isKeyCall(call', k, "keyup") /\ DOMAIN heldKeys = {toLowerCase(k)})
        => activeVoices' = 0
      ]_vars

(***************************************************************************)
(* C4 amended: releasing the only key in heldKeys while hold mode is off   *)
(* empties heldKeys and resets the voice counter to 0; the counter then    *)
(* stays 0 until a note press triggers, and that press emits NoteOn with   *)
(* voice 0.  With hold mode on the release changes neither.                *)
(***************************************************************************)
C4_LastReleaseResets ==
    [][/\ \A k \in AllKeys :
            (isKeyCall(call', k, "keyup") /\ DOMAIN heldKeys = {toLowerCase(k)})
            => IF holdMode
               THEN UNCHANGED <<heldKeys, activeVoices>>
               ELSE DOMAIN heldKeys' = {} /\ activeVoices' = 0
       /\ activeVoices = 0 =>
            IF \E i \in 1..Len(emitted') : isNoteOn(emitted'[i])
            THEN \A i \in 1..Len(emitted') :
                    isNoteOn(emitted'[i]) => emitted'[i].data.voice = 0
            ELSE activeVoices' = 0
      ]_vars

\* the last held key was released after the counter had reached 2
C4_Witness ==
    /\ call.op = "keyHandler"
    /\ call.type = "keyup"
    /\ Len(emitted) = 1
    /\ isNoteOff(emitted[1])
    /\ emitted[1].data.voice = 1
    /\ DOMAIN heldKeys = {}
    /\ activeVoices = 0

(***************************************************************************)
(* C5: while hold mode is on, a keyup emits nothing and removes no key     *)
(* from heldKeys.  On a fresh keyboard, "b" turns hold mode on, the first  *)
(* press of "a" emits one NoteOn with voice 0, the second press of "a"     *)
(* emits one NoteOn with voice 1, and the release of "a" emits nothing.    *)
(***************************************************************************)
C5_HoldSuppressesRelease ==
    [][/\ \A k \in AllKeys :
            (isKeyCall(call', k, "keyup") /\ holdMode)
            => /\ emitted' = <<>>
               /\ delivered' = <<>>
               /\ heldKeys' = heldKeys
               /\ holdMode'
       \* press "b" on the fresh keyboard
       /\ (/\ isKeyCall(call', "b", "keydown")
           /\ ~holdMode /\ DOMAIN heldKeys = {} /\ activeVoices = 0)
          => /\ holdMode' /\ DOMAIN heldKeys' = {} /\ activeVoices' = 0
             /\ \A i \in 1..Len(emitted') : ~isNoteEvent(emitted'[i])
       \* first press of "a"
       /\ (/\ isKeyCall(call', "a", "keydown")
           /\ holdMode /\ DOMAIN heldKeys = {} /\ activeVoices = 0)
          => /\ Len(emitted') = 1 /\ isNoteOn(emitted'[1])
             /\ emitted'[1].data.voice = 0
             /\ holdMode' /\ heldKeys' = ("a" :> 0) /\ activeVoices' = 1
       \* second press of "a"
       /\ (/\ isKeyCall(call', "a", "keydown")
           /\ holdMode /\ heldKeys = ("a" :> 0) /\ activeVoices = 1)
          => /\ Len(emitted') = 1 /\ isNoteOn(emitted'[1])
             /\ emitted'[1].data.voice = 1
             /\ holdMode' /\ heldKeys' = ("a" :> 1) /\ activeVoices' = 2
      ]_vars

\* "a" was released after its two presses under hold mode
C5_Witness ==
    /\ isKeyCall(call, "a", "keyup")
    /\ holdMode
    /\ heldKeys = ("a" :> 1)
    /\ activeVoices = 2
    /\ emitted = <<>>

(***************************************************************************)
(* C6: every emitted note event carries the note of the key and the        *)
(* frequency baseFrequency * 2^octave for the octave at the moment of      *)
(* emission, and a NoteOff carries the voice stored for the key.  Press    *)
(* "a" at octave 1 emits voice 0 at 32.70 Hz; after octave-up to 2 the     *)
(* release of "a" emits NoteOff with voice 0 at 65.40 Hz.                  *)
(***************************************************************************)
C6_FrequencyAtEmission ==
    /\ [](\A i \in 1..Len(emitted) :
            isNoteEvent(emitted[i]) =>
                LET key == toLowerCase(call.key)
                IN  /\ hasNote(key)
                    /\ emitted[i].data.note = keyToNoteMap[key]
                    /\ emitted[i].data.freq = Hertz(keyToNoteMap[key].freq, octave))
    /\ [][/\ \A k \in AllKeys :
               (isKeyCall(call', k, "keyup") /\ emitted' # <<>>)
               => /\ Len(emitted') = 1
                  /\ isNoteOff(emitted'[1])
                  /\ emitted'[1].data.voice = heldKeys[toLowerCase(k)]
                  /\ octave' = octave
          \* press "a" on the fresh keyboard at octave 1
          /\ (/\ isKeyCall(call', "a", "keydown")
              /\ octave = 1 /\ DOMAIN heldKeys = {} /\ activeVoices = 0)
             => /\ Len(emitted') = 1 /\ isNoteOn(emitted'[1])
                /\ emitted'[1].data.voice = 0
                /\ emitted'[1].data.freq = Hertz(3270, 0)
                /\ heldKeys' = ("a" :> 0) /\ octave' = 1
          \* octave-up with "a" held
          /\ (/\ isKeyCall(call', "x", "keydown")
              /\ octave = 1 /\ heldKeys = ("a" :> 0))
             => /\ octave' = 2 /\ heldKeys' = heldKeys
                /\ activeVoices' = activeVoices
          \* release "a" at octave 2
          /\ (/\ isKeyCall(call', "a", "keyup")
              /\ octave = 2 /\ ~holdMode /\ heldKeys = ("a" :> 0))
             => /\ Len(emitted') = 1 /\ isNoteOff(emitted'[1])
                /\ emitted'[1].data.voice = 0
                /\ emitted'[1].data.freq = Hertz(6540, 0)
                /\ activeVoices' = 0
         ]_vars

\* "a" was released at octave 2 and its NoteOff carries 65.40 Hz
C6_Witness ==
    /\ isKeyCall(call, "a", "keyup")
    /\ octave = 2
    /\ Len(emitted) = 1
    /\ isNoteOff(emitted[1])
    /\ emitted[1].data.voice = 0
    /\ emitted[1].data.freq = Hertz(6540, 0)

(***************************************************************************)
(* C7: in every reachable state the octave is in [-8, 8], whatever         *)
(* initial octave was given to the constructor.                            *)
(***************************************************************************)
C7_OctaveInRange == octave \in -8..8

(***************************************************************************)
(* C8: starting from velocity 100 the velocity stays in [0, 127]; a        *)
(* velocity command changes it by exactly 5 unless that would leave the    *)
(* range, and then the velocity becomes exactly the bound.                 *)
(***************************************************************************)
C8_VelocityStep ==
    /\ [](velocity \in 0..127)
    /\ [][\A k \in AllKeys :
            /\ (isKeyCall(call', k, "keydown") /\ toLowerCase(k) = "v")
               => velocity' = IF velocity + 5 > 127 THEN 127 ELSE velocity + 5
            /\ (isKeyCall(call', k, "keydown") /\ toLowerCase(k) = "c")
               => velocity' = IF velocity - 5 < 0 THEN 0 ELSE velocity - 5
         ]_vars

\* velocity-up was applied and the velocity is at the upper bound
C8_Witness ==
    /\ isKeyCall(call, "v", "keydown")
    /\ velocity = 127
    /\ Len(emitted) = 1
    /\ emitted[1].data.state = 127

(***************************************************************************)
(* C9: every keydown of a command key emits exactly one event, a settings  *)
(* event whose command is the command's name and whose state is the        *)
(* affected parameter after the command, also when clamping leaves the     *)
(* value unchanged; no settings event is emitted by any other call.        *)
(***************************************************************************)
C9_SettingsEmission ==
    /\ [](\A i \in 1..Len(emitted) :
            isSettings(emitted[i]) =>
                /\ call.op = "keyHandler"
                /\ call.type = "keydown"
                /\ hasCommand(toLowerCase(call.key)))
    /\ [][\A k \in AllKeys :
            LET key == toLowerCase(k)
            IN  (isKeyCall(call', k, "keydown") /\ hasCommand(key))
                => /\ Len(emitted') = 1
                   /\ emitted'[1].action = "settings"
                   /\ DOMAIN emitted'[1].data = {"command", "state"}
                   /\ emitted'[1].data.command = keyToCommandsMap[key]
                   /\ emitted'[1].data.state =
                        CASE keyToCommandsMap[key] \in {"octave-up", "octave-down"}
                                -> octave'
                          [] keyToCommandsMap[key] \in {"velocity-up", "velocity-down"}
                                -> velocity'
                          [] keyToCommandsMap[key] = "hold-mode"
                                -> holdMode'
                   /\ (key = "x" /\ octave = 8) =>
                        octave' = 8 /\ emitted'[1].data.state = 8
         ]_vars

\* octave-up was pressed and the settings event reports octave 8
C9_Witness ==
    /\ isKeyCall(call, "x", "keydown")
    /\ octave = 8
    /\ Len(emitted) = 1
    /\ emitted[1].action = "settings"
    /\ emitted[1].data.state = 8

(***************************************************************************)
(* C10: a key transition whose key is in neither table, or whose kind is   *)
(* neither keydown nor keyup, changes no field of the interpreter state    *)
(* and emits no event.                                                     *)
(***************************************************************************)
C10_UnmappedIgnored ==
    [][\A k \in AllKeys, t \in EventTypes :
        LET key == toLowerCase(k)
        IN  (/\ isKeyCall(call', k, t)
             /\ \/ ~hasNote(key) /\ ~hasCommand(key)
                \/ t \notin {"keydown", "keyup"})
            => /\ emitted' = <<>>
               /\ delivered' = <<>>
               /\ ~threw'
               /\ UNCHANGED <<octave, velocity, holdMode, heldKeys,
                              activeVoices, subscribers>>
      ]_vars

\* the unmapped key "q" was released while a note was held and a callback
\* was subscribed
C10_Witness ==
    /\ isKeyCall(call, "q", "keyup")
    /\ DOMAIN heldKeys # {}
    /\ activeVoices > 0
    /\ subscribers # <<>>

(***************************************************************************)
(* Vocabulary of the properties of C11..C20                                *)
(***************************************************************************)
\* the number of invocations of callback cb in a sequence of invocations
timesCalled(calls, cb) ==
    Cardinality({i \in 1..Len(calls) : calls[i].callback = cb})

\* the callbacks in a subscriber list
listed(list) == {list[i] : i \in 1..Len(list)}

(***************************************************************************)
(* C11: for every emitted event, the callbacks subscribed at the moment    *)
(* of emission are each invoked exactly once with that event, in           *)
(* registration order, within the keyHandler call, also when a callback    *)
(* subscribes or unsubscribes during delivery.                             *)
(***************************************************************************)
C11_DeliveredToEverySubscriber ==
    [][(call'.op = "keyHandler" /\ Len(emitted') = 1)
       => delivered' = [i \in 1..Len(subscribers) |->
                           [callback |-> subscribers[i], event |-> emitted'[1]]]
      ]_vars

(***************************************************************************)
(* C12: subscribing a callback that is already subscribed changes          *)
(* nothing, so a callback is in the list once, at the position of its      *)
(* first registration; every emitted event is delivered exactly once to    *)
(* every callback in the list; after one unsubscribe the callback is not   *)
(* in the list and an event is not delivered to a callback that is not in  *)
(* the list.                                                               *)
(***************************************************************************)
C12_SubscribeIdempotent ==
    /\ [](\A i, j \in 1..Len(subscribers) :
            subscribers[i] = subscribers[j] => i = j)
    /\ [][/\ \A cb \in ReentrantCallbacks :
               /\ (call' = [op |-> "subscribe", callback |-> cb]
                   /\ cb \in listed(subscribers))
                  => subscribers' = subscribers
               /\ (call' = [op |-> "subscribe", callback |-> cb]
                   /\ cb \notin listed(subscribers))
                  => subscribers' = Append(subscribers, cb)
               /\ call' = [op |-> "unsubscribe", callback |-> cb]
                  => cb \notin listed(subscribers')
          /\ (call'.op = "keyHandler" /\ Len(emitted') = 1)
             => \A cb \in ReentrantCallbacks :
                   timesCalled(delivered', cb) =
                       IF cb \in listed(subscribers) THEN 1 ELSE 0
         ]_vars

(***************************************************************************)
(* C13: activate() on a keyboard that is already active does not register  *)
(* the handler a second time: a key event that arrives while the keyboard  *)
(* is active is handled exactly once, so an octave-up keydown raises the   *)
(* octave by exactly 1 (below 8) and emits exactly one settings event.     *)
(***************************************************************************)
C13_HandledOnce ==
    (/\ dispatch.activated
     /\ dispatch.pending = <<>>
     /\ dispatch.event.type \in {"keydown", "keyup"})
    => /\ dispatch.handled = 1
       /\ (/\ dispatch.event = [key |-> "x", type |-> "keydown"]
           /\ dispatch.before.octave < 8)
          => /\ octave = dispatch.before.octave + 1
             /\ Len(dispatch.emitted) = 1

(***************************************************************************)
(* C14: a key event that arrives after deactivate() and before the next    *)
(* activate() does not reach the interpreter: no listener is called, no    *)
(* field changes and no event is emitted.                                  *)
(***************************************************************************)
C14_DeactivatedIgnoresKeys ==
    ~dispatch.activated
    => /\ dispatch.handled = 0
       /\ dispatch.emitted = <<>>
       /\ fields = dispatch.before

(***************************************************************************)
(* C15: in every reachable state every key in heldKeys is physically down  *)
(* or hold mode is on.                                                     *)
(***************************************************************************)
C15_HeldKeysAreDown ==
    \A k \in DOMAIN heldKeys : k \in down \/ holdMode

(***************************************************************************)
(* C16: a NoteOn is never emitted with a voice for which an earlier NoteOn *)
(* has not yet been followed by a NoteOff.                                 *)
(***************************************************************************)
C16_VoiceNotSounding ==
    [][\A i \in 1..Len(emitted') :
          isNoteOn(emitted'[i]) => emitted'[i].data.voice \notin sounding
      ]_vars

(***************************************************************************)
(* C17: the voice counter is 0 exactly when heldKeys is empty; a           *)
(* transition that leaves heldKeys non-empty does not decrease the         *)
(* counter, a triggering press increases it by exactly 1, and the counter  *)
(* goes down only to 0 and only on a transition that leaves heldKeys       *)
(* empty.                                                                  *)
(***************************************************************************)
C17_CounterZeroIffNoneHeld ==
    /\ [](activeVoices = 0 <=> DOMAIN heldKeys = {})
    /\ [][/\ DOMAIN heldKeys' # {} => activeVoices' >= activeVoices
          /\ activeVoices' < activeVoices
             => activeVoices' = 0 /\ DOMAIN heldKeys' = {}
          /\ DOMAIN heldKeys' = {} => activeVoices' = 0
          /\ \A k \in AllKeys \cup ObservedKeys :
                (/\ isKeyCall(call', k, "keydown")
                 /\ hasNote(toLowerCase(k))
                 /\ (toLowerCase(k) \notin DOMAIN heldKeys \/ holdMode))
                => activeVoices' = activeVoices + 1
         ]_vars

\* "a" was released while "w" stayed held: the counter kept its value 2
C17_Witness ==
    /\ isKeyCall(call, "a", "keyup")
    /\ DOMAIN heldKeys = {"w"}
    /\ activeVoices = 2
    /\ Len(emitted) = 1
    /\ isNoteOff(emitted[1])

(***************************************************************************)
(* C18: a command keydown leaves heldKeys and the voice counter unchanged  *)
(* and emits no note event; a keyup under hold mode leaves the key and its *)
(* voice in heldKeys; a key leaves heldKeys, and a NoteOff is emitted,     *)
(* only on a keyup of that key with hold mode off, and that NoteOff        *)
(* carries the voice stored for the key and no other held key's voice.     *)
(***************************************************************************)
C18_CommandsKeepHeldKeys ==
    [][/\ \A k \in AllKeys \cup ObservedKeys :
            LET key == toLowerCase(k)
            IN  /\ (isKeyCall(call', k, "keydown") /\ hasCommand(key))
                   => /\ UNCHANGED <<heldKeys, activeVoices>>
                      /\ \A i \in 1..Len(emitted') : ~isNoteEvent(emitted'[i])
                /\ (isKeyCall(call', k, "keyup") /\ holdMode
                    /\ key \in DOMAIN heldKeys)
                   => key \in DOMAIN heldKeys' /\ heldKeys'[key] = heldKeys[key]
       /\ \A key \in DOMAIN heldKeys :
            (\/ key \notin DOMAIN heldKeys'
             \/ heldKeys[key] \in voicesOf(emitted', "off"))
            => /\ call'.op = "keyHandler"
               /\ call'.type = "keyup"
               /\ toLowerCase(call'.key) = key
               /\ ~holdMode
               /\ voicesOf(emitted', "off") = {heldKeys[key]}
      ]_vars

\* hold mode was just switched off while "a", released under hold mode, is
\* still in heldKeys and its voice has had no NoteOff
C18_Witness ==
    /\ isKeyCall(call, "b", "keydown")
    /\ ~holdMode
    /\ "a" \in DOMAIN heldKeys
    /\ "a" \notin down
    /\ heldKeys["a"] \in sounding

(***************************************************************************)
(* C19: every key in heldKeys has an entry in the note table, no call      *)
(* ends with a TypeError on an undefined note, every note event carries a  *)
(* note of the table, and the keyup of a key without a note emits nothing. *)
(***************************************************************************)
C19_HeldKeysHaveNotes ==
    /\ [](/\ DOMAIN heldKeys \subseteq DOMAIN keyToNoteMap
          /\ ~threw
          /\ \A i \in 1..Len(emitted) :
                isNoteEvent(emitted[i]) =>
                    \E key \in DOMAIN keyToNoteMap :
                        emitted[i].data.note = keyToNoteMap[key])
    /\ [][\A k \in AllKeys \cup ObservedKeys :
            (isKeyCall(call', k, "keyup") /\ ~hasNote(toLowerCase(k)))
            => emitted' = <<>>
         ]_vars

\* the command key "b" was released with hold mode off while a note key was
\* held: nothing was emitted
C19_Witness ==
    /\ isKeyCall(call, "b", "keyup")
    /\ ~holdMode
    /\ DOMAIN heldKeys # {}
    /\ emitted = <<>>

(***************************************************************************)
(* C20: the voices stored in heldKeys are pairwise distinct across keys    *)
(* and each is below the voice counter; a NoteOn stores its voice for the  *)
(* key, the stored voice changes only by a NoteOn of that key, and a       *)
(* NoteOff carries the stored voice; two different keys do not release     *)
(* the same voice while the counter has not been reset.                    *)
(***************************************************************************)
C20_StoredVoicesDistinct ==
    /\ [](/\ \A j, k \in DOMAIN heldKeys : heldKeys[j] = heldKeys[k] => j = k
          /\ \A k \in DOMAIN heldKeys : heldKeys[k] < activeVoices
          /\ \A p, q \in released : p[2] = q[2] => p[1] = q[1])
    /\ [][/\ call'.op = "keyHandler" =>
               LET key == toLowerCase(call'.key)
               IN  \A i \in 1..Len(emitted') :
                      /\ isNoteOn(emitted'[i]) =>
                            /\ key \in DOMAIN heldKeys'
                            /\ heldKeys'[key] = emitted'[i].data.voice
                      /\ isNoteOff(emitted'[i]) =>
                            /\ key \in DOMAIN heldKeys
                            /\ heldKeys[key] = emitted'[i].data.voice
          /\ \A key \in DOMAIN heldKeys \cap DOMAIN heldKeys' :
                heldKeys'[key] # heldKeys[key]
                => /\ call'.op = "keyHandler"
                   /\ toLowerCase(call'.key) = key
                   /\ \E i \in 1..Len(emitted') : isNoteOn(emitted'[i])
         ]_vars

\* "a" (voice 0) was released while "w" (voice 1) is held
C20_Witness ==
    /\ isKeyCall(call, "a", "keyup")
    /\ heldKeys = ("w" :> 1)
    /\ activeVoices = 2
    /\ released = {<<"a", 0>>}

====
